---- MODULE Spec2Model ----
(***************************************************************************)
(* Model of GenericV2StrategyWithCashOut                                   *)
(* (src/bots/scripts/v2_with_controllers.py): portfolio drawdown control,  *)
(* scheduled and manual cash-out, and the drain of executors.              *)
(*                                                                         *)
(* Python dicts are modelled as insertion-ordered sequences of <<key,      *)
(* value>> pairs; defaultdict(Decimal) reads of a missing key give 0.      *)
(* Money is integer-valued (exact arithmetic, as Decimal is).              *)
(*                                                                         *)
(* The second half models one DCA controller                               *)
(* (src/bots/controllers/directional_trading): config validation and the   *)
(* ladder (SpecLadder), the refresh rule (SpecRefresh), the signals        *)
(* (SpecSignal, SpecFused) and the candle horizon (SpecHorizon). Each of   *)
(* these specifications holds the variables of the other parts at Off.     *)
(***************************************************************************)
EXTENDS Integers, Sequences, FiniteSets, TLC

\* ------------------------------------------------------------------ bounds
MaxTime == 4          \* last clock timestamp at which the strategy ticks
MaxLoss == 1          \* per-controller PnL reports range over -MaxLoss..0
LossLimit == 1        \* the non-zero value of config.max_portfolio_loss
TimeToCashOut == 2    \* the non-zero value of config.time_to_cash_out
StartTime == 1        \* clock value when start() runs

\* Optional[int]: None is <<>>, a value v is <<v>>
None == <<>>
Some(v) == <<v>>
\* the absent id of a call that names no controller or executor
NoId == "-"

ControllerIds == <<"c1", "c2">>          \* iteration order of self.controllers
Controllers == {ControllerIds[i] : i \in 1..Len(ControllerIds)}
ExecutorIds == <<"e1", "e2">>            \* iteration order of executors_info
Executors == {ExecutorIds[i] : i \in 1..Len(ExecutorIds)}
ExecutorOwner == [e \in Executors |-> IF e = "e1" THEN "c1" ELSE "c2"]
Assets == {"USDT", "BTC"}
PnlValues == (0 - MaxLoss)..0

\* trading pairs as token sequences: "ETH-USDT" is <<"ETH", "USDT">>
\* deployments: both controllers on one quote asset, or one controller per quote asset
\* (the connectors listed in either order);
\* markets is self.markets reduced to the first trading pair of each connector, in order
Deployments ==
    { [trading_pair |-> [c \in Controllers |-> <<"ETH", "USDT">>],
       markets |-> << <<"ETH", "USDT">> >>],
      [trading_pair |-> [c \in Controllers |->
                            IF c = "c1" THEN <<"ETH", "USDT">> ELSE <<"ETH", "BTC">>],
       markets |-> << <<"ETH", "USDT">>, <<"ETH", "BTC">> >>],
      [trading_pair |-> [c \in Controllers |->
                            IF c = "c1" THEN <<"ETH", "USDT">> ELSE <<"ETH", "BTC">>],
       markets |-> << <<"ETH", "BTC">>, <<"ETH", "USDT">> >>] }
\* connector._account_balances
Balances == << <<"USDT", 10>>, <<"BTC", 5>> >>

NoExecutor == [controller_id |-> NoId, status |-> NoId, is_trading |-> FALSE]

VARIABLES
    pc,                      \* "constructed" | "started" | "stopped"
    current_timestamp,       \* the clock
    time_to_cash_out,        \* config.time_to_cash_out (None or int)
    max_portfolio_loss,      \* config.max_portfolio_loss
    markets,                 \* self.markets
    trading_pair,            \* controller.config.trading_pair
    manual_kill_switch,      \* controller.config.manual_kill_switch
    status,                  \* controller.status
    global_pnl_quote,        \* performance report per controller
    executors,               \* executors_info: id -> ExecutorInfo
    initial_portfolio_value,
    max_portfolio_value,
    cash_out_time,
    cashing_out,
    calls,                   \* calls issued by the last on_tick, until a collaborator next acts
    peak,                    \* history: per quote asset, greatest valuation seen by a drawdown check
    \* --- one DCA controller (src/bots/controllers/directional_trading)
    config_input,            \* dca_spreads / dca_amounts as given to the config class
    config,                  \* the validated config, or the validation error
    controller,              \* the constructed controller: spreads, dca_amounts_pct
    executor_config,         \* the last DCAExecutorConfig returned by get_executor_config
    indicator_config,        \* indicator fields of the config: thresholds, intervals, periods
    max_records_list,        \* outcome of get_candle_max_records
    candles,                 \* what the market data provider returns for each series
    processed_data,          \* outcome of the last update_processed_data
    refresh_input,           \* clock, executor_refresh_time and executors_info of the controller
    refresh_actions          \* outcome of the last executors_to_refresh

strategy_vars == <<pc, current_timestamp, time_to_cash_out, max_portfolio_loss, markets,
                   trading_pair, manual_kill_switch, status, global_pnl_quote, executors,
                   initial_portfolio_value, max_portfolio_value, cash_out_time, cashing_out,
                   calls, peak>>
ladder_vars == <<config_input, config, controller, executor_config>>
signal_vars == <<indicator_config, max_records_list, candles, processed_data>>
refresh_vars == <<refresh_input, refresh_actions>>
controller_vars == <<ladder_vars, signal_vars, refresh_vars>>
vars == <<strategy_vars, controller_vars>>

\* a part of the system that a specification leaves out holds this value throughout
Off == "off"
LadderOff ==
    /\ config_input = Off
    /\ config = Off
    /\ controller = Off
    /\ executor_config = Off
SignalOff ==
    /\ indicator_config = Off
    /\ max_records_list = Off
    /\ candles = Off
    /\ processed_data = Off
RefreshOff ==
    /\ refresh_input = Off
    /\ refresh_actions = Off

\* ------------------------------------------------------------ dict helpers
HasKey(d, k) == \E i \in 1..Len(d) : d[i][1] = k
Keys(d) == {d[i][1] : i \in 1..Len(d)}
\* d[k] on a defaultdict(Decimal): a missing key reads as Decimal() = 0
Get(d, k) == IF HasKey(d, k) THEN d[CHOOSE i \in 1..Len(d) : d[i][1] = k][2] ELSE 0
\* d[k] = v
Put(d, k, v) ==
    IF HasKey(d, k)
    THEN [i \in 1..Len(d) |-> IF d[i][1] = k THEN <<k, v>> ELSE d[i]]
    ELSE Append(d, <<k, v>>)

\* Python truthiness of an Optional number
Truthy(x) == x # None /\ x[1] # 0


\* ------------------------------------------------- portfolio valuation
\* get_quote_asset: trading_pair.split('-')[-1]
get_quote_asset(tp) == tp[Len(tp)]

\* _get_pnl_by_quote_asset: pnl_dict[quote] += report.global_pnl_quote
RECURSIVE pnl_loop(_, _)
pnl_loop(i, pnl_dict) ==
    IF i > Len(ControllerIds) THEN pnl_dict
    ELSE LET c == ControllerIds[i]
             q == get_quote_asset(trading_pair[c])
         IN pnl_loop(i + 1, Put(pnl_dict, q, Get(pnl_dict, q) + global_pnl_quote[c]))

get_pnl_by_quote_asset == pnl_loop(1, <<>>)

\* the key under which _get_current_portfolio_value stores the value of `asset`
PortfolioKey(asset) == "asset"

\* _get_current_portfolio_value: one pass over initial_portfolio_value.items()
RECURSIVE current_loop(_, _, _)
current_loop(i, current_port, pnl_dict) ==
    IF i > Len(initial_portfolio_value) THEN current_port
    ELSE LET asset == initial_portfolio_value[i][1]
             value == initial_portfolio_value[i][2]
         IN current_loop(i + 1,
                         Put(current_port, PortfolioKey(asset), value + Get(pnl_dict, asset)),
                         pnl_dict)

get_current_portfolio_value == current_loop(1, <<>>, get_pnl_by_quote_asset)

\* mutant of MaxOf: the comparison reversed
MaxOf_reversed(value, current) == IF value > current THEN current ELSE value

\* the value update_max_portfolio_value keeps for one key
MaxOf(value, current) == IF value < current THEN current ELSE value

\* update_max_portfolio_value: the new self.max_portfolio_value
update_max_portfolio_value(max_value, current) ==
    IF max_value = <<>>                       \* `not self.max_portfolio_value`
    THEN current
    ELSE [i \in 1..Len(max_value) |->
            <<max_value[i][1], MaxOf(max_value[i][2], Get(current, max_value[i][1]))>>]

\* ------------------------------------------------- calls to collaborators
Call(step, op, c, e) == [step |-> step, op |-> op, controller_id |-> c, executor_id |-> e]

\* [StopExecutorAction(executor.id, executor.controller_id) for executor in es]
StopActions(step, es) ==
    [i \in 1..Len(es) |->
        Call(step, "StopExecutorAction", executors[es[i]].controller_id, es[i])]

\* get_executors_by_controller(controller_id)
IsOwnedBy(e, c) == executors[e].controller_id = c
\* mutant of get_executors_by_controller: the executors of every controller
get_executors_of_all(c) == SelectSeq(ExecutorIds, LAMBDA e : executors[e] # NoExecutor)

get_executors_by_controller(c) == SelectSeq(ExecutorIds, LAMBDA e : IsOwnedBy(e, c))

\* the effect on s of a loop body that stops controller c and its executors
StopController(s, step, c) ==
    [s EXCEPT !.status[c] = "TERMINATED",
              !.calls = s.calls \o <<Call(step, "controller.stop", c, NoId)>>
                          \o StopActions(step, get_executors_by_controller(c))]

\* ------------------------------------------------- drawdown control
RECURSIVE stop_loop(_, _)
stop_loop(i, s) ==
    IF i > Len(ControllerIds) THEN s
    ELSE LET c == ControllerIds[i]
         IN stop_loop(i + 1, IF s.status[c] = "RUNNING"
                             THEN StopController(s, "drawdown", c)
                             ELSE s)

stop_by_portfolio_loss(s) == stop_loop(1, s)

\* the condition under which control_portfolio_loss calls stop_by_portfolio_loss
LossReached(max_value, current) ==
    \E i \in 1..Len(current) :
        Get(max_value, current[i][1]) - current[i][2] >= max_portfolio_loss

control_portfolio_loss(s) ==
    LET current == get_current_portfolio_value
        m == update_max_portfolio_value(s.max_portfolio_value, current)
        s1 == [s EXCEPT !.max_portfolio_value = m]
    IN IF LossReached(m, current) THEN stop_by_portfolio_loss(s1) ELSE s1

\* ------------------------------------------------- cash-out
RECURSIVE cash_out_loop(_, _)
cash_out_loop(i, s) ==
    IF i > Len(ControllerIds) THEN s
    ELSE LET c == ControllerIds[i]
         IN cash_out_loop(i + 1,
                IF s.status[c] = "RUNNING"
                THEN [s EXCEPT !.status[c] = "TERMINATED",
                               !.calls = Append(s.calls, Call("deadline", "controller.stop", c, NoId))]
                ELSE s)

\* the value evaluate_cash_out_time assigns to self.cashing_out
CashingOutAfterDeadline == TRUE

\* mutant of evaluate_cash_out_time: the deadline compared with > instead of >=
evaluate_cash_out_time_late(s, now) ==
    IF Truthy(cash_out_time) /\ now > cash_out_time[1] /\ ~s.cashing_out
    THEN [cash_out_loop(1, s) EXCEPT !.cashing_out = CashingOutAfterDeadline]
    ELSE s

\* mutant of evaluate_cash_out_time: the flag assigned the condition itself
evaluate_cash_out_time_assigned(s, now) ==
    IF Truthy(cash_out_time) /\ now >= cash_out_time[1] /\ ~s.cashing_out
    THEN [cash_out_loop(1, s) EXCEPT !.cashing_out = CashingOutAfterDeadline]
    ELSE [s EXCEPT !.cashing_out = FALSE]

evaluate_cash_out_time(s, now) ==
    IF Truthy(cash_out_time) /\ now >= cash_out_time[1] /\ ~s.cashing_out
    THEN [cash_out_loop(1, s) EXCEPT !.cashing_out = CashingOutAfterDeadline]
    ELSE s

\* the guard of the restart branch of check_manual_cash_out
RestartCondition(s, c) == ~manual_kill_switch[c] /\ s.status[c] = "TERMINATED"

RECURSIVE manual_loop(_, _)
manual_loop(i, s) ==
    IF i > Len(ControllerIds) THEN s
    ELSE LET c == ControllerIds[i]
             s1 == IF manual_kill_switch[c] /\ s.status[c] = "RUNNING"
                   THEN StopController(s, "manual", c)
                   ELSE s
             s2 == IF RestartCondition(s1, c)
                   THEN [s1 EXCEPT !.status[c] = "RUNNING",
                                   !.calls = Append(s1.calls, Call("manual", "controller.start", c, NoId))]
                   ELSE s1
         IN manual_loop(i + 1, s2)

check_manual_cash_out(s) == manual_loop(1, s)

\* mutant of IsRunningExecutor: every executor of the report counts as active
IsReportedExecutor(e) == executors[e] # NoExecutor
\* mutant of IsNonTrading: trading executors are not filtered out
IsAnyExecutor(e) == TRUE

\* mutant of IsNonTrading: the drain asks no executor to stop
IsNoExecutor(e) == FALSE

\* the two filters of check_executors_status
IsRunningExecutor(e) == executors[e].status = "RUNNING"
IsNonTrading(e) == ~executors[e].is_trading

\* mutant of check_executors_status: stop requests are issued only in a tick that has
\* already issued a call (the tick that stops the controllers), not again afterwards
check_executors_status_first(s) ==
    LET active_executors == SelectSeq(ExecutorIds, IsRunningExecutor)
        non_trading_executors == SelectSeq(active_executors, IsNonTrading)
    IN IF active_executors = <<>>
       THEN [s EXCEPT !.calls = Append(s.calls, Call("drain", "app.stop", NoId, NoId)),
                      !.app_stopped = TRUE]
       ELSE IF s.calls = <<>> THEN s
       ELSE [s EXCEPT !.calls = s.calls \o StopActions("drain", non_trading_executors)]

check_executors_status(s) ==
    LET active_executors == SelectSeq(ExecutorIds, IsRunningExecutor)
        non_trading_executors == SelectSeq(active_executors, IsNonTrading)
    IN IF active_executors = <<>>
       THEN [s EXCEPT !.calls = Append(s.calls, Call("drain", "app.stop", NoId, NoId)),
                      !.app_stopped = TRUE]
       ELSE [s EXCEPT !.calls = s.calls \o StopActions("drain", non_trading_executors)]

\* mutant of control_cash_out: the manual kill switch is also checked while cashing out
control_cash_out_both(s, now) ==
    LET s1 == evaluate_cash_out_time(s, now)
    IN IF s1.cashing_out
       THEN check_executors_status(check_manual_cash_out(s1))
       ELSE check_manual_cash_out(s1)

control_cash_out(s, now) ==
    LET s1 == evaluate_cash_out_time(s, now)
    IN IF s1.cashing_out THEN check_executors_status(s1) ELSE check_manual_cash_out(s1)

on_tick(s, now) ==
    control_cash_out(IF max_portfolio_loss # 0 THEN control_portfolio_loss(s) ELSE s, now)

\* ------------------------------------------------- history of valuations
\* value of quote asset q: its initial balance plus the PnL of the controllers trading q
AssetValue(q) ==
    LET Sum[i \in 0..Len(ControllerIds)] ==
            IF i = 0 THEN 0
            ELSE Sum[i - 1] + (IF get_quote_asset(trading_pair[ControllerIds[i]]) = q
                               THEN global_pnl_quote[ControllerIds[i]] ELSE 0)
    IN Get(initial_portfolio_value, q) + Sum[Len(ControllerIds)]

PeakAfterCheck(q) ==
    IF ~HasKey(initial_portfolio_value, q) THEN peak[q]
    ELSE IF peak[q] = None THEN Some(AssetValue(q))
    ELSE IF peak[q][1] < AssetValue(q) THEN Some(AssetValue(q)) ELSE peak[q]

\* ------------------------------------------------- state machine
Init ==
    /\ pc = "constructed"
    /\ current_timestamp = StartTime
    /\ time_to_cash_out \in {None, Some(TimeToCashOut)}
    /\ max_portfolio_loss \in {0, LossLimit}
    /\ \E d \in Deployments : markets = d.markets /\ trading_pair = d.trading_pair
    /\ manual_kill_switch = [c \in Controllers |-> FALSE]
    /\ status = [c \in Controllers |-> "RUNNING"]
    /\ global_pnl_quote = [c \in Controllers |-> 0]
    /\ executors = [e \in Executors |-> NoExecutor]
    /\ initial_portfolio_value = <<>>
    /\ max_portfolio_value = <<>>
    /\ cash_out_time = None
    /\ cashing_out = FALSE
    /\ calls = <<>>
    /\ peak = [q \in Assets |-> None]
    /\ LadderOff
    /\ SignalOff
    /\ RefreshOff

\* _set_cashout_time
set_cashout_time(now) ==
    IF Truthy(time_to_cash_out) THEN Some(time_to_cash_out[1] + now) ELSE None

\* _set_initial_portfolio_value
RECURSIVE initial_loop(_, _)
initial_loop(i, initial_portfolio) ==
    IF i > Len(markets) THEN initial_portfolio
    ELSE LET quote_asset == get_quote_asset(markets[i])
         IN initial_loop(i + 1, Put(initial_portfolio, quote_asset, Get(Balances, quote_asset)))

set_initial_portfolio_value == initial_loop(1, <<>>)

\* start() -> apply_initial_setting()
Start ==
    /\ pc = "constructed"
    /\ pc' = "started"
    /\ cash_out_time' = set_cashout_time(current_timestamp)
    /\ initial_portfolio_value' = set_initial_portfolio_value
    /\ UNCHANGED <<current_timestamp, time_to_cash_out, max_portfolio_loss, markets,
                   trading_pair, manual_kill_switch, status, global_pnl_quote, executors,
                   max_portfolio_value, cashing_out, calls, peak>>
    /\ UNCHANGED controller_vars

\* one clock tick: on_tick() at timestamp current_timestamp + 1
Tick ==
    /\ pc = "started"
    /\ current_timestamp < MaxTime
    /\ LET now == current_timestamp + 1
           s == on_tick([status |-> status,
                         max_portfolio_value |-> max_portfolio_value,
                         cashing_out |-> cashing_out,
                         calls |-> <<>>,
                         app_stopped |-> FALSE], now)
       IN /\ current_timestamp' = now
          /\ status' = s.status
          /\ max_portfolio_value' = s.max_portfolio_value
          /\ cashing_out' = s.cashing_out
          /\ calls' = s.calls
          /\ pc' = IF s.app_stopped THEN "stopped" ELSE pc
    /\ peak' = IF max_portfolio_loss # 0 THEN [q \in Assets |-> PeakAfterCheck(q)] ELSE peak
    /\ UNCHANGED <<time_to_cash_out, max_portfolio_loss, markets, trading_pair,
                   manual_kill_switch, global_pnl_quote, executors,
                   initial_portfolio_value, cash_out_time>>
    /\ UNCHANGED controller_vars

\* ------------------------------------------------- collaborators
EnvUnchanged == <<pc, current_timestamp, time_to_cash_out, max_portfolio_loss, markets,
                  trading_pair, status, initial_portfolio_value, max_portfolio_value,
                  cash_out_time, cashing_out, peak>>

\* the orchestrator creates an executor proposed by a running controller
CreateExecutor(e) ==
    /\ pc = "started"
    /\ executors[e] = NoExecutor
    /\ status[ExecutorOwner[e]] = "RUNNING"
    /\ executors' = [executors EXCEPT ![e] =
            [controller_id |-> ExecutorOwner[e], status |-> "RUNNING", is_trading |-> FALSE]]
    /\ calls' = <<>>
    /\ UNCHANGED <<EnvUnchanged, manual_kill_switch, global_pnl_quote>>
    /\ UNCHANGED controller_vars

\* an order of the executor is filled
FillExecutor(e) ==
    /\ pc = "started"
    /\ executors[e].status = "RUNNING"
    /\ ~executors[e].is_trading
    /\ executors' = [executors EXCEPT ![e].is_trading = TRUE]
    /\ calls' = <<>>
    /\ UNCHANGED <<EnvUnchanged, manual_kill_switch, global_pnl_quote>>
    /\ UNCHANGED controller_vars

\* the executor completes (exit condition or a processed stop request)
CloseExecutor(e) ==
    /\ pc = "started"
    /\ executors[e].status = "RUNNING"
    /\ executors' = [executors EXCEPT ![e].status = "TERMINATED", ![e].is_trading = FALSE]
    /\ calls' = <<>>
    /\ UNCHANGED <<EnvUnchanged, manual_kill_switch, global_pnl_quote>>
    /\ UNCHANGED controller_vars

\* the performance report of a controller changes
ReportPnl(c, v) ==
    /\ pc = "started"
    /\ global_pnl_quote[c] # v
    /\ global_pnl_quote' = [global_pnl_quote EXCEPT ![c] = v]
    /\ calls' = <<>>
    /\ UNCHANGED <<EnvUnchanged, manual_kill_switch, executors>>
    /\ UNCHANGED controller_vars

\* the user flips the manual kill switch in the controller's config
SetKillSwitch(c) ==
    /\ pc = "started"
    /\ manual_kill_switch' = [manual_kill_switch EXCEPT ![c] = ~manual_kill_switch[c]]
    /\ calls' = <<>>
    /\ UNCHANGED <<EnvUnchanged, global_pnl_quote, executors>>
    /\ UNCHANGED controller_vars

Next ==
    \/ Start
    \/ Tick
    \/ \E e \in Executors : CreateExecutor(e)
    \/ \E e \in Executors : FillExecutor(e)
    \/ \E e \in Executors : CloseExecutor(e)
    \/ \E c \in Controllers, v \in PnlValues : ReportPnl(c, v)
    \/ \E c \in Controllers : SetKillSwitch(c)

Spec == Init /\ [][Next]_vars

TypeOK ==
    /\ pc \in {"constructed", "started", "stopped"}
    /\ cashing_out \in BOOLEAN
    /\ status \in [Controllers -> {"RUNNING", "TERMINATED"}]

\* ------------------------------------------------- reading the calls of a tick
IssuedIn(cs, step, op, c, e) == \E i \in 1..Len(cs) : cs[i] = Call(step, op, c, e)
CountIn(cs, step, op, c, e) == Cardinality({i \in 1..Len(cs) : cs[i] = Call(step, op, c, e)})
StopRequestedIn(cs, step, e) ==
    \E i \in 1..Len(cs) : /\ cs[i].step = step
                          /\ cs[i].op = "StopExecutorAction"
                          /\ cs[i].executor_id = e
\* a step of the behaviour that is one on_tick
IsTick == current_timestamp' # current_timestamp
\* some quote asset of the initial snapshot has lost max_portfolio_loss or more from
\* its greatest valuation, this tick's valuation included
DrawdownReached ==
    \E i \in 1..Len(initial_portfolio_value) :
        LET q == initial_portfolio_value[i][1]
        IN PeakAfterCheck(q)[1] - AssetValue(q) >= max_portfolio_loss
ExecutorsOf(c) == {e \in Executors : executors[e].controller_id = c}

\* ------------------------------------------------- C1
\* C1: in a tick with drawdown control enabled, if any quote asset of the initial
\* snapshot has (running max - current value) >= max_portfolio_loss, every RUNNING
\* controller is stopped and a stop request is issued for each of its executors,
\* whichever asset breached.
C1_DrawdownStopsEveryRunningController ==
    [][(IsTick /\ max_portfolio_loss # 0 /\ DrawdownReached) =>
          \A c \in Controllers : status[c] = "RUNNING" =>
              /\ IssuedIn(calls', "drawdown", "controller.stop", c, NoId)
              /\ \A e \in ExecutorsOf(c) : StopRequestedIn(calls', "drawdown", e)]_vars

\* ------------------------------------------------- C2
\* C2: with one tracked quote asset, a drawdown equal to or above the limit makes the
\* tick issue exactly one stop per RUNNING controller, a drawdown below the limit
\* issues none, and a controller stopped for the drawdown in one tick is not issued
\* another drawdown stop in the following tick while nothing has changed.
C2_DrawdownStopIssuedOnce ==
    [][(IsTick /\ max_portfolio_loss # 0 /\ Len(initial_portfolio_value) = 1) =>
          \A c \in Controllers :
              /\ (DrawdownReached /\ status[c] = "RUNNING")
                    => CountIn(calls', "drawdown", "controller.stop", c, NoId) = 1
              /\ ~DrawdownReached
                    => ~IssuedIn(calls', "drawdown", "controller.stop", c, NoId)
              /\ IssuedIn(calls, "drawdown", "controller.stop", c, NoId)
                    => ~IssuedIn(calls', "drawdown", "controller.stop", c, NoId)]_vars

\* ------------------------------------------------- C3
\* C3: a controller stopped by the drawdown trigger is not RUNNING at the end of the
\* tick that stopped it (only a manual kill-switch stop is reversible).
C3_DrawdownStopNotReverted ==
    \A c \in Controllers :
        IssuedIn(calls, "drawdown", "controller.stop", c, NoId) => status[c] # "RUNNING"

\* ------------------------------------------------- C4
\* C4: cashing_out starts False and, once True, is True in every later state.
C4_CashingOutMonotonic ==
    ~cashing_out /\ [][cashing_out => cashing_out']_vars

\* a tick has run after the one that set cashing_out
C4_Witness ==
    cashing_out /\ cash_out_time # None /\ current_timestamp > cash_out_time[1]

\* ------------------------------------------------- C5
\* C5: in the first tick at or after cash_out_time while not cashing out, every
\* RUNNING controller is stopped and cashing_out becomes True in that tick; in a
\* tick before the deadline the scheduled path stops nothing and cashing_out stays
\* False.
C5_ScheduledCashOut ==
    [][(IsTick /\ ~cashing_out) =>
          IF Truthy(cash_out_time) /\ current_timestamp' >= cash_out_time[1]
          THEN /\ cashing_out'
               /\ \A c \in Controllers : status[c] = "RUNNING" =>
                     /\ status'[c] = "TERMINATED"
                     /\ CountIn(calls', "deadline", "controller.stop", c, NoId)
                          + CountIn(calls', "drawdown", "controller.stop", c, NoId) = 1
          ELSE /\ ~cashing_out'
               /\ \A i \in 1..Len(calls') : calls'[i].step # "deadline"]_vars

C5_Witness ==
    /\ cashing_out
    /\ IssuedIn(calls, "deadline", "controller.stop", "c1", NoId)
    /\ status["c1"] = "TERMINATED"

\* ------------------------------------------------- C6
\* status of controller c when check_manual_cash_out of the tick being taken starts
StatusAtManualCheck(c) ==
    IF IssuedIn(calls', "drawdown", "controller.stop", c, NoId) THEN "TERMINATED" ELSE status[c]
KillSwitched(c) == manual_kill_switch[c] /\ StatusAtManualCheck(c) = "RUNNING"

\* C6: in a tick that is not cashing out, a RUNNING controller with its kill switch
\* set is stopped and stop requests are issued for exactly its own executors; any
\* other controller receives no stop call, none of its executors a stop request, and
\* it is not stopped by the check.
C6_ManualCashOutScoped ==
    [][(IsTick /\ ~cashing_out') =>
          /\ \A c \in Controllers :
                IF KillSwitched(c)
                THEN /\ status'[c] = "TERMINATED"
                     /\ CountIn(calls', "manual", "controller.stop", c, NoId) = 1
                ELSE /\ ~IssuedIn(calls', "manual", "controller.stop", c, NoId)
                     /\ StatusAtManualCheck(c) = "RUNNING" => status'[c] = "RUNNING"
                     /\ status'[c] # StatusAtManualCheck(c)
                           => IssuedIn(calls', "manual", "controller.start", c, NoId)
          /\ \A e \in Executors :
                /\ StopRequestedIn(calls', "manual", e)
                      <=> \E c \in Controllers : KillSwitched(c) /\ IsOwnedBy(e, c)
                /\ \A c \in Controllers :
                      CountIn(calls', "manual", "StopExecutorAction", c, e)
                          = IF KillSwitched(c) /\ IsOwnedBy(e, c) THEN 1 ELSE 0]_vars

C6_Witness ==
    /\ IssuedIn(calls, "manual", "controller.stop", "c1", NoId)
    /\ IssuedIn(calls, "manual", "StopExecutorAction", "c1", "e1")
    /\ executors["e2"].status = "RUNNING"
    /\ status["c2"] = "RUNNING"
    /\ ~StopRequestedIn(calls, "manual", "e2")

\* ------------------------------------------------- C7
NoRunningExecutor == \A e \in Executors : executors[e].status # "RUNNING"

\* C7: a tick requests shutdown of the process iff after its deadline evaluation
\* cashing_out is True and no executor is RUNNING; nothing else stops the process.
C7_ShutdownCondition ==
    [][/\ IsTick => /\ IssuedIn(calls', "drain", "app.stop", NoId, NoId)
                          <=> (cashing_out' /\ NoRunningExecutor)
                    /\ CountIn(calls', "drain", "app.stop", NoId, NoId) <= 1
                    /\ pc' = "stopped" <=> (cashing_out' /\ NoRunningExecutor)
       /\ (pc' = "stopped" /\ pc # "stopped") => IsTick]_vars

C7_Witness ==
    pc = "stopped" /\ IssuedIn(calls, "drain", "app.stop", NoId, NoId)

\* ------------------------------------------------- C8
\* C8: a tick whose drain check runs with some executor RUNNING issues one stop
\* request for each RUNNING executor that is not trading and none for any other; in
\* a tick that starts in CASHING_OUT no step issues a stop request for a trading
\* executor.
C8_DrainStopsNonTradingOnly ==
    [][IsTick =>
          /\ (cashing_out' /\ ~NoRunningExecutor) =>
                \A e \in Executors :
                    /\ CountIn(calls', "drain", "StopExecutorAction", executors[e].controller_id, e)
                          = IF executors[e].status = "RUNNING" /\ ~executors[e].is_trading
                            THEN 1 ELSE 0
                    /\ executors[e].is_trading => ~StopRequestedIn(calls', "drain", e)
          /\ cashing_out =>
                \A e \in Executors : executors[e].is_trading =>
                    \A i \in 1..Len(calls') :
                        ~(calls'[i].op = "StopExecutorAction" /\ calls'[i].executor_id = e)]_vars

C8_Witness ==
    /\ cashing_out
    /\ StopRequestedIn(calls, "drain", "e1")
    /\ executors["e2"].status = "RUNNING"
    /\ executors["e2"].is_trading
    /\ ~StopRequestedIn(calls, "drain", "e2")

\* ------------------------------------------------- C9
\* C9: the current portfolio snapshot has, for every quote asset q of the initial
\* snapshot, an entry keyed by q equal to initial[q] plus the PnL of the controllers
\* trading q.
C9_SnapshotKeyedByAsset ==
    \A i \in 1..Len(initial_portfolio_value) :
        LET q == initial_portfolio_value[i][1]
        IN /\ HasKey(get_current_portfolio_value, q)
           /\ Get(get_current_portfolio_value, q) = AssetValue(q)

\* ------------------------------------------------- C10
\* C10: a call of update_max_portfolio_value leaves, for every key, the greater of
\* the previous running max and the current snapshot value (the current snapshot on
\* the first call); no step ever lowers or drops a running-max value.
C10_RunningMax ==
    [][/\ (IsTick /\ max_portfolio_loss # 0) =>
             IF max_portfolio_value = <<>>
             THEN max_portfolio_value' = get_current_portfolio_value
             ELSE /\ Keys(max_portfolio_value') = Keys(max_portfolio_value)
                  /\ \A k \in Keys(max_portfolio_value) :
                        LET old == Get(max_portfolio_value, k)
                            cur == Get(get_current_portfolio_value, k)
                        IN Get(max_portfolio_value', k) = IF old >= cur THEN old ELSE cur
       /\ \A k \in Keys(max_portfolio_value) :
             /\ HasKey(max_portfolio_value', k)
             /\ Get(max_portfolio_value', k) >= Get(max_portfolio_value, k)]_vars

\* the last drawdown check kept a running max above a lower current value
C10_Witness ==
    /\ calls # <<>>
    /\ \E i \in 1..Len(max_portfolio_value) :
          max_portfolio_value[i][2] > Get(get_current_portfolio_value, max_portfolio_value[i][1])

\* ======================================================================
\* DCA controllers (src/bots/controllers/directional_trading): the config
\* validators, the ladder built by get_executor_config, the signals of
\* update_processed_data, the candle horizon and the refresh rule.
\* bollinger_dca.py is the file modelled; bollinger_macd_dca.py and
\* macd_mt_dca.py repeat the validators, the ladder and the refresh rule.
\* ======================================================================

\* ----------------------------------------------------- decimal.Decimal
\* A Decimal is [m, x], the number m * 10^x, kept without trailing zeros.
\* Every arithmetic result is rounded half-even to DecimalPrec significant
\* digits, as the decimal context does (Python's default context keeps 28).
DecimalPrec == 3

Pow10(k) == LET p[i \in 0..k] == IF i = 0 THEN 1 ELSE 10 * p[i - 1] IN p[k]

RECURSIVE Strip(_, _)
Strip(m, x) ==
    IF m = 0 THEN [m |-> 0, x |-> 0]
    ELSE IF m % 10 = 0 THEN Strip(m \div 10, x + 1)
    ELSE [m |-> m, x |-> x]

\* the quotient n / d rounded to an integer, ties to even
HalfEven(n, d) ==
    LET q == n \div d
        r == n % d
    IN IF 2 * r < d THEN q
       ELSE IF 2 * r > d THEN q + 1
       ELSE IF q % 2 = 0 THEN q ELSE q + 1

\* (n / d) * 10^x rounded to the context precision, n >= 0 and d > 0
RECURSIVE Quantize(_, _, _)
Quantize(n, d, x) ==
    IF n = 0 THEN [m |-> 0, x |-> 0]
    ELSE IF n < d * Pow10(DecimalPrec - 1) THEN Quantize(n * 10, d, x - 1)
    ELSE IF n >= d * Pow10(DecimalPrec) THEN Quantize(n, d * 10, x + 1)
    ELSE Strip(HalfEven(n, d), x)

\* Decimal(n) of an integer, and the Decimal written m * 10^x
Dec(n) == Strip(n, 0)
DecOf(m, x) == Strip(m, x)

MinX(a, b) == IF a.x < b.x THEN a.x ELSE b.x
\* the mantissa of a at exponent x <= a.x
At(a, x) == a.m * Pow10(a.x - x)

DAdd(a, b) == Quantize(At(a, MinX(a, b)) + At(b, MinX(a, b)), 1, MinX(a, b))
\* a - b for a >= b
DSub(a, b) == Quantize(At(a, MinX(a, b)) - At(b, MinX(a, b)), 1, MinX(a, b))
DMul(a, b) == Quantize(a.m * b.m, 1, a.x + b.x)
\* a / b for b # 0
DDiv(a, b) == Quantize(a.m, b.m, a.x - b.x)
DLess(a, b) == At(a, MinX(a, b)) < At(b, MinX(a, b))

\* sum(list): 0 + list[1] + list[2] + ...
RECURSIVE sum_loop(_, _, _)
sum_loop(i, list, acc) ==
    IF i > Len(list) THEN acc ELSE sum_loop(i + 1, list, DAdd(acc, list[i]))
sum(list) == sum_loop(1, list, Dec(0))

\* ---------------------------------------------- config field values
MaxLevels == 3        \* longest dca_spreads / dca_amounts list given

\* a str is the sequence of its characters
Digits == <<"0", "1", "2", "3", "4", "5", "6", "7", "8", "9">>
DigitOf(c) == (CHOOSE d \in 1..10 : Digits[d] = c) - 1

\* the numbers a level of the config may name, as typed
SpreadTexts == { <<"0">>, <<"0", ".", "0", "1">>, <<"0", ".", "0", "2">> }
AmountTexts == { <<"0", ".", "1">>, <<"0", ".", "2">> }

\* float(x) of a well-formed decimal literal, then pydantic's Decimal(str(float))
RECURSIVE float_loop(_, _, _, _)
float_loop(i, text, m, x) ==
    IF i > Len(text) THEN DecOf(m, x)
    ELSE IF text[i] = "." THEN float_loop(i + 1, text, m, 0 - (Len(text) - i))
    ELSE float_loop(i + 1, text, 10 * m + DigitOf(text[i]), x)
float(text) == float_loop(1, text, 0, 0)

\* v.split(','): the pieces between the commas, at least one piece
RECURSIVE split_loop(_, _, _, _)
split_loop(i, v, piece, pieces) ==
    IF i > Len(v) THEN Append(pieces, piece)
    ELSE IF v[i] = "," THEN split_loop(i + 1, v, <<>>, Append(pieces, piece))
    ELSE split_loop(i + 1, v, Append(piece, v[i]), pieces)
split(v) == split_loop(1, v, <<>>, <<>>)

\* x.strip(): leading and trailing blanks dropped
RECURSIVE strip(_)
strip(x) ==
    IF x = <<>> THEN x
    ELSE IF x[1] = " " THEN strip(Tail(x))
    ELSE IF x[Len(x)] = " " THEN strip(SubSeq(x, 1, Len(x) - 1))
    ELSE x

\* ",".join(texts), the way a user types a list into the prompt
RECURSIVE join(_)
join(texts) ==
    IF texts = <<>> THEN <<>>
    ELSE IF Len(texts) = 1 THEN texts[1]
    ELSE texts[1] \o <<",">> \o join(Tail(texts))

\* a field value as given: None, a str, or a list of numbers
\* (text holds the str, items the list)
NoneInput == [kind |-> "none", text |-> <<>>, items |-> <<>>]
StrInput(texts) == [kind |-> "str", text |-> join(texts), items |-> <<>>]
ListInput(texts) ==
    [kind |-> "list", text |-> <<>>, items |-> [i \in 1..Len(texts) |-> float(texts[i])]]
LevelTexts(T) == UNION {[1..n -> T] : n \in 0..MaxLevels}
ConfigInputs ==
    { [dca_spreads |-> StrInput(st), dca_amounts |-> StrInput(at)] :
          st \in LevelTexts(SpreadTexts), at \in LevelTexts(AmountTexts) }
    \cup { [dca_spreads |-> ListInput(st), dca_amounts |-> ListInput(at)] :
          st \in LevelTexts(SpreadTexts), at \in LevelTexts(AmountTexts) }
    \cup { [dca_spreads |-> ListInput(st), dca_amounts |-> NoneInput] :
          st \in LevelTexts(SpreadTexts) }

\* ------------------------------------------------------- validators
\* parse_spreads
parse_spreads(v) ==
    IF v.kind = "none" THEN <<>>
    ELSE IF v.kind = "str"
         THEN IF v.text = <<>> THEN <<>>
              ELSE LET pieces == split(v.text)
                   IN [i \in 1..Len(pieces) |-> float(strip(pieces[i]))]
    ELSE v.items

\* parse_and_validate_amounts raises: values[values['dca_spreads']] indexes the dict
\* with a list (TypeError) when v is None or ""; a list of another length than the
\* validated dca_spreads is a ValueError; a str is never checked against dca_spreads
amounts_raise(v, values) ==
    \/ v.kind = "none"
    \/ v.kind = "str" /\ v.text = <<>>
    \/ v.kind = "list" /\ Len(v.items) # Len(values.dca_spreads)

\* parse_and_validate_amounts, when it returns
parse_and_validate_amounts(v, values) ==
    IF v.kind = "str"
    THEN LET pieces == split(v.text)
         IN [i \in 1..Len(pieces) |-> float(strip(pieces[i]))]
    ELSE v.items

Unvalidated == [state |-> "unvalidated", dca_spreads |-> <<>>, dca_amounts |-> <<>>]
\* the config class called with the given fields: pydantic runs the validators in
\* field order and turns what they raise into a ValidationError
validate(input) ==
    LET values == [dca_spreads |-> parse_spreads(input.dca_spreads)]
    IN IF amounts_raise(input.dca_amounts, values)
       THEN [state |-> "ValidationError", dca_spreads |-> values.dca_spreads,
             dca_amounts |-> <<>>]
       ELSE [state |-> "valid", dca_spreads |-> values.dca_spreads,
             dca_amounts |-> parse_and_validate_amounts(input.dca_amounts, values)]

\* ------------------------------------------------------- controller
\* mutant of dca_amounts_pct: the amounts divided by the first amount
dca_amounts_pct_first(dca_amounts) ==
    [i \in 1..Len(dca_amounts) |-> DDiv(dca_amounts[i], dca_amounts[1])]

\* __init__: self.dca_amounts_pct
dca_amounts_pct(dca_amounts) ==
    [i \in 1..Len(dca_amounts) |-> DDiv(dca_amounts[i], sum(dca_amounts))]

NoController == [state |-> "none", spreads |-> <<>>, dca_amounts_pct |-> <<>>]
\* __init__
construct(cfg) ==
    [state |-> "constructed",
     spreads |-> cfg.dca_spreads,
     dca_amounts_pct |-> dca_amounts_pct(cfg.dca_amounts)]

TradeTypes == {"BUY", "SELL"}
\* reference prices and total amounts the controller is asked to build a ladder for
Prices == {Dec(50), Dec(100)}
Amounts == {Dec(300)}

\* mutant of level_prices: every side priced below the reference
level_prices_below(trade_type, price, spreads) ==
    [i \in 1..Len(spreads) |-> DMul(price, DSub(Dec(1), spreads[i]))]

\* get_executor_config: prices
level_prices(trade_type, price, spreads) ==
    IF trade_type = "BUY"
    THEN [i \in 1..Len(spreads) |-> DMul(price, DSub(Dec(1), spreads[i]))]
    ELSE [i \in 1..Len(spreads) |-> DMul(price, DAdd(Dec(1), spreads[i]))]

\* zip(a, b): as many pairs as the shorter list has
ZipLen(a, b) == IF Len(a) < Len(b) THEN Len(a) ELSE Len(b)

\* get_executor_config
get_executor_config(ctl, trade_type, price, amount) ==
    LET prices == level_prices(trade_type, price, ctl.spreads)
        amounts == [i \in 1..Len(ctl.dca_amounts_pct) |-> DMul(amount, ctl.dca_amounts_pct[i])]
        amounts_quote == [i \in 1..ZipLen(amounts, prices) |-> DMul(amounts[i], prices[i])]
    IN [side |-> trade_type, price |-> price, amount |-> amount,
        prices |-> prices, amounts_quote |-> amounts_quote]

\* ------------------------------------------------- ladder state machine
StrategyOff ==
    /\ pc = Off
    /\ current_timestamp = StartTime
    /\ time_to_cash_out = None
    /\ max_portfolio_loss = 0
    /\ markets = <<>>
    /\ trading_pair = <<>>
    /\ manual_kill_switch = <<>>
    /\ status = <<>>
    /\ global_pnl_quote = <<>>
    /\ executors = <<>>
    /\ initial_portfolio_value = <<>>
    /\ max_portfolio_value = <<>>
    /\ cash_out_time = None
    /\ cashing_out = FALSE
    /\ calls = <<>>
    /\ peak = <<>>

LadderInit ==
    /\ StrategyOff
    /\ SignalOff
    /\ RefreshOff
    /\ config_input \in ConfigInputs
    /\ config = Unvalidated
    /\ controller = NoController
    /\ executor_config = None

\* the config object is built from the given fields
Validate ==
    /\ config.state = "unvalidated"
    /\ config' = validate(config_input)
    /\ UNCHANGED <<config_input, controller, executor_config>>
    /\ UNCHANGED <<strategy_vars, signal_vars, refresh_vars>>

\* the controller is constructed from a config object
Construct ==
    /\ config.state = "valid"
    /\ controller.state = "none"
    /\ controller' = construct(config)
    /\ UNCHANGED <<config_input, config, executor_config>>
    /\ UNCHANGED <<strategy_vars, signal_vars, refresh_vars>>

\* the controller is asked for the executor config of a signal
GetExecutorConfig(trade_type, price, amount) ==
    /\ controller.state = "constructed"
    /\ executor_config' = Some(get_executor_config(controller, trade_type, price, amount))
    /\ UNCHANGED <<config_input, config, controller>>
    /\ UNCHANGED <<strategy_vars, signal_vars, refresh_vars>>

LadderNext ==
    \/ Validate
    \/ Construct
    \/ \E t \in TradeTypes, p \in Prices, a \in Amounts : GetExecutorConfig(t, p, a)

SpecLadder == LadderInit /\ [][LadderNext]_vars

\* ------------------------------------------------- reading a ladder
\* how many levels a field value names, as the user gave it
GivenLen(v) ==
    IF v.kind = "none" THEN 0
    ELSE IF v.kind = "list" THEN Len(v.items)
    ELSE IF v.text = <<>> THEN 0
    ELSE Cardinality({i \in 1..Len(v.text) : v.text[i] = ","}) + 1

\* the smallest exponent of a non-empty list of Decimals
LeastX(list) == CHOOSE x \in {list[i].x : i \in 1..Len(list)} :
                    \A i \in 1..Len(list) : x <= list[i].x
\* the exact (unrounded) sum of the list, in units of 10^x
ExactSum(list, x) ==
    LET S[i \in 0..Len(list)] == IF i = 0 THEN 0 ELSE S[i - 1] + At(list[i], x)
    IN S[Len(list)]
Abs(n) == IF n < 0 THEN 0 - n ELSE n

\* the validated lists have the same length N >= 1 and the controller exists
EqualLengths ==
    /\ controller.state = "constructed"
    /\ Len(config.dca_spreads) = Len(config.dca_amounts)
    /\ Len(config.dca_spreads) >= 1
PlanShape ==
    executor_config # None =>
        /\ Len(executor_config[1].prices) = Len(config.dca_spreads)
        /\ Len(executor_config[1].amounts_quote) = Len(config.dca_spreads)

\* C12 as stated: for spread and amount lists of equal length N >= 1, dca_amounts_pct
\* has N entries that sum to exactly 1, and the plan has N prices and N amounts_quote.
C12_WeightsSumExactlyOne ==
    EqualLengths =>
        LET w == controller.dca_amounts_pct
        IN /\ Len(w) = Len(config.dca_spreads)
           /\ ExactSum(w, LeastX(w)) = Pow10(0 - LeastX(w))
           /\ PlanShape

\* C12: for spread and amount lists of equal length N >= 1, dca_amounts_pct has N
\* entries whose sum differs from 1 by at most N/2 units of the last significant
\* digit the decimal context keeps (each weight is a rounded quotient), and the plan
\* has N prices and N amounts_quote.
C12_LadderShape ==
    EqualLengths =>
        LET w == controller.dca_amounts_pct
            N == Len(config.dca_spreads)
            one == Pow10(0 - LeastX(w))
        IN /\ Len(w) = N
           /\ 2 * Abs(ExactSum(w, LeastX(w)) - one) * Pow10(DecimalPrec) <= N * one
           /\ PlanShape

\* a plan of MaxLevels levels whose weights do not sum to exactly 1
C12_Witness ==
    /\ EqualLengths
    /\ Len(config.dca_spreads) = MaxLevels
    /\ executor_config # None
    /\ ExactSum(controller.dca_amounts_pct, LeastX(controller.dca_amounts_pct))
           # Pow10(0 - LeastX(controller.dca_amounts_pct))

\* reference * (1 - spread) for BUY, reference * (1 + spread) otherwise, unrounded
ExactLevelPrice(side, reference, spread) ==
    LET factor == IF side = "BUY" THEN Pow10(0 - spread.x) - spread.m
                  ELSE Pow10(0 - spread.x) + spread.m
    IN Strip(reference.m * factor, reference.x + spread.x)

\* C13: every level price of a plan is reference_price * (1 - spread_i) for BUY and
\* reference_price * (1 + spread_i) otherwise; with spread_i > 0 it is strictly below
\* the reference price of a BUY plan and strictly above that of a SELL plan.
C13_LadderPrices ==
    executor_config # None =>
        LET plan == executor_config[1]
        IN /\ Len(plan.prices) = Len(controller.spreads)
           /\ \A i \in 1..Len(plan.prices) :
                 /\ plan.prices[i] = ExactLevelPrice(plan.side, plan.price, controller.spreads[i])
                 /\ controller.spreads[i].m > 0 =>
                        IF plan.side = "BUY" THEN DLess(plan.prices[i], plan.price)
                        ELSE DLess(plan.price, plan.prices[i])

\* a SELL plan with a level of positive spread
C13_Witness ==
    /\ executor_config # None
    /\ executor_config[1].side = "SELL"
    /\ \E i \in 1..Len(controller.spreads) : controller.spreads[i].m > 0

\* level i of the plan has quote amount total * (amount_i / sum(amounts)), up to one
\* quote unit of rounding
NotionalOfLevel(plan, amounts, i) ==
    LET xa == LeastX(amounts)
        S == ExactSum(amounts, xa)
        q == plan.amounts_quote[i]
        xq == IF q.x < 0 THEN q.x ELSE 0
    IN Abs(At(q, xq) * S - At(plan.amount, 0) * At(amounts[i], xa) * Pow10(0 - xq))
           <= S * Pow10(0 - xq)

\* the example: spreads [0.01, 0.02], amounts [0.1, 0.2], BUY at 100 for 300
ExampleInput ==
    [dca_spreads |-> ListInput(<< <<"0", ".", "0", "1">>, <<"0", ".", "0", "2">> >>),
     dca_amounts |-> ListInput(<< <<"0", ".", "1">>, <<"0", ".", "2">> >>)]
IsExamplePlan ==
    /\ config_input = ExampleInput
    /\ executor_config # None
    /\ executor_config[1].side = "BUY"
    /\ executor_config[1].price = Dec(100)
    /\ executor_config[1].amount = Dec(300)

\* C14 as stated: the quote amount of level i is total_notional * (amount_i /
\* sum(amounts)), and the example plan is (99, 100), (98, 200).
C14_LadderNotionals ==
    /\ (EqualLengths /\ executor_config # None) =>
           \A i \in 1..Len(executor_config[1].amounts_quote) :
               NotionalOfLevel(executor_config[1], config.dca_amounts, i)
    /\ IsExamplePlan =>
           /\ executor_config[1].prices = <<Dec(99), Dec(98)>>
           /\ executor_config[1].amounts_quote = <<Dec(100), Dec(200)>>

\* C15 as stated: a config that names different numbers of dca_amounts and dca_spreads
\* fails validation, so no controller is constructed, and no plan has different numbers
\* of prices and amounts_quote.
C15_LengthMismatchRejected ==
    /\ (config.state # "unvalidated"
        /\ GivenLen(config_input.dca_amounts) # GivenLen(config_input.dca_spreads)) =>
            /\ config.state = "ValidationError"
            /\ controller.state = "none"
    /\ executor_config # None =>
            Len(executor_config[1].prices) = Len(executor_config[1].amounts_quote)

\* C20 as stated: in every plan the spreads strictly increase with the level index.
C20_LadderOrdering ==
    executor_config # None =>
        \A i \in 1..(Len(controller.spreads) - 1) :
            DLess(controller.spreads[i], controller.spreads[i + 1])

\* ------------------------------------------------------ refresh rule
\* the factor order_level_refresh_condition applies to executor_refresh_time
RefreshFactor == 1000

\* config.id of the controller and the ids of its executors, in executors_info order
ConfigId == "c1"
RefreshExecutorIds == <<"e1", "e2">>
\* configured values of executor_refresh_time, in seconds
RefreshTimes == {1, 2}
\* ages of an executor, in seconds of market_data_provider.time(): around each
\* refresh time and around RefreshFactor times it
Ages == {0} \cup UNION {{r, r + 1, RefreshFactor * r, RefreshFactor * r + 1} : r \in RefreshTimes}
\* the clock value at which executors_to_refresh runs
RefreshNow == 1 + RefreshFactor * 2 + 1

ExecutorInfos(id) ==
    { [id |-> id, timestamp |-> RefreshNow - age, is_active |-> a, is_trading |-> t] :
          age \in Ages, a \in BOOLEAN, t \in BOOLEAN }
RefreshInputs ==
    { [time |-> RefreshNow, executor_refresh_time |-> r, executors_info |-> <<e1, e2>>] :
          r \in {None} \cup {Some(v) : v \in RefreshTimes},
          e1 \in ExecutorInfos(RefreshExecutorIds[1]),
          e2 \in ExecutorInfos(RefreshExecutorIds[2]) }

\* order_level_refresh_condition, executor_refresh_time being a number
order_level_refresh_condition(in, executor) ==
    in.time - executor.timestamp > in.executor_refresh_time[1] * RefreshFactor

\* the filter_func of executors_to_refresh
refresh_filter(in, x) ==
    ~x.is_trading /\ x.is_active /\ order_level_refresh_condition(in, x)

\* the filter reaches order_level_refresh_condition with executor_refresh_time None:
\* None * 1000 raises TypeError
refresh_raises(in) ==
    /\ in.executor_refresh_time = None
    /\ \E i \in 1..Len(in.executors_info) :
           ~in.executors_info[i].is_trading /\ in.executors_info[i].is_active

\* executors_to_refresh
executors_to_refresh(in) ==
    IF refresh_raises(in) THEN [raised |-> TRUE, actions |-> <<>>]
    ELSE LET Keep(x) == refresh_filter(in, x)
             to_refresh == SelectSeq(in.executors_info, Keep)
         IN [raised |-> FALSE,
             actions |-> [i \in 1..Len(to_refresh) |->
                             [op |-> "StopExecutorAction", controller_id |-> ConfigId,
                              executor_id |-> to_refresh[i].id]]]

RefreshInit ==
    /\ StrategyOff
    /\ LadderOff
    /\ SignalOff
    /\ refresh_input \in RefreshInputs
    /\ refresh_actions = None

\* the controller determines its executor actions
ExecutorsToRefresh ==
    /\ refresh_actions = None
    /\ refresh_actions' = Some(executors_to_refresh(refresh_input))
    /\ UNCHANGED refresh_input
    /\ UNCHANGED <<strategy_vars, ladder_vars, signal_vars>>

RefreshNext == ExecutorsToRefresh

SpecRefresh == RefreshInit /\ [][RefreshNext]_vars

\* executor i of the input is stopped by the returned actions
StopReturned(out, e) ==
    \E k \in 1..Len(out.actions) :
        out.actions[k].op = "StopExecutorAction" /\ out.actions[k].executor_id = e.id
Age(in, e) == in.time - e.timestamp

\* C11 as stated: with executor_refresh_time R configured, executors_to_refresh returns a
\* stop action for an executor iff it is active, not trading and its age (in the unit of
\* R) exceeds R; every stop action carries the controller's id and an executor's id; no
\* stop action is returned for a trading or inactive executor.
C11_RefreshRule ==
    (refresh_actions # None /\ refresh_input.executor_refresh_time # None) =>
        LET in == refresh_input
            out == refresh_actions[1]
        IN /\ ~out.raised
           /\ \A i \in 1..Len(in.executors_info) :
                 LET e == in.executors_info[i]
                 IN StopReturned(out, e) <=>
                        (e.is_active /\ ~e.is_trading
                         /\ Age(in, e) > in.executor_refresh_time[1])
           /\ \A k \in 1..Len(out.actions) :
                 /\ out.actions[k].controller_id = ConfigId
                 /\ \E i \in 1..Len(in.executors_info) :
                        out.actions[k].executor_id = in.executors_info[i].id

\* -------------------------------------------- single-indicator signal
\* (bollinger_dca.py: update_processed_data)
BBLength == 2         \* config.bb_length
MaxBars == 3          \* most bars the market data provider returns

\* a float that may be NaN: NaN is None
NaN == None
\* config.bb_long_threshold / config.bb_short_threshold
Thresholds == {0, 2}
\* band percentages of a bar with a full window (NaN when the bands have no width)
BbpValues == {NaN} \cup {Some(v) : v \in -1..3}
ThresholdConfigs ==
    { [bb_long_threshold |-> l, bb_short_threshold |-> h] : l \in Thresholds, h \in Thresholds }

\* the candles of one series with their band percentage as pandas_ta computes it:
\* NaN for the bars before the window is full
BbpSeries ==
    UNION { { b \in [1..n -> BbpValues] : \A i \in 1..n : i < BBLength => b[i] = NaN } :
            n \in 0..MaxBars }

\* df.ta.bbands appends no column when the frame has fewer than length rows, so the
\* read of the BBP column raises KeyError (an empty frame raises as well)
bbands_missing(bbp) == Len(bbp) < BBLength

\* the signal column of one row: 0, then 1 where long_condition, then -1 where
\* short_condition; a comparison with NaN is False
bb_signal(v, cfg) ==
    LET long_condition == v # NaN /\ v[1] < cfg.bb_long_threshold
        short_condition == v # NaN /\ v[1] > cfg.bb_short_threshold
        signal0 == 0
        signal1 == IF long_condition THEN 1 ELSE signal0
    IN IF short_condition THEN 0 - 1 ELSE signal1

NoProcessedData == [raised |-> FALSE, signal |-> None]
\* update_processed_data: an exception leaves processed_data as it was
update_processed_data(cfg, bbp, processed) ==
    IF bbands_missing(bbp) THEN [raised |-> TRUE, signal |-> processed.signal]
    ELSE [raised |-> FALSE, signal |-> Some(bb_signal(bbp[Len(bbp)], cfg))]

SignalInit ==
    /\ StrategyOff
    /\ LadderOff
    /\ RefreshOff
    /\ indicator_config \in ThresholdConfigs
    /\ max_records_list = Off
    /\ candles = None
    /\ processed_data = NoProcessedData

\* one evaluation cycle: the provider returns bbp and update_processed_data runs
UpdateProcessedData(bbp) ==
    /\ candles' = Some(bbp)
    /\ processed_data' = update_processed_data(indicator_config, bbp, processed_data)
    /\ UNCHANGED <<indicator_config, max_records_list>>
    /\ UNCHANGED <<strategy_vars, ladder_vars, refresh_vars>>

SignalNext == \E bbp \in BbpSeries : UpdateProcessedData(bbp)

SpecSignal == SignalInit /\ [][SignalNext]_vars

\* a cycle has run on enough bars
EnoughBars == candles # None /\ Len(candles[1]) >= BBLength
LatestBbp == candles[1][Len(candles[1])]

\* C16 as stated: the signal of the latest bar is LONG (1) if v < long_threshold,
\* otherwise SHORT (-1) if v > short_threshold, otherwise FLAT (0), for every pair of
\* thresholds; an undefined v gives FLAT.
C16_SingleIndicatorSignal ==
    EnoughBars =>
        /\ ~processed_data.raised
        /\ processed_data.signal =
              Some(IF LatestBbp = NaN THEN 0
                   ELSE IF LatestBbp[1] < indicator_config.bb_long_threshold THEN 1
                   ELSE IF LatestBbp[1] > indicator_config.bb_short_threshold THEN 0 - 1
                   ELSE 0)

\* C18 as stated: a cycle that receives fewer bars than the look-back (none included)
\* completes without raising and its signal is FLAT; a cycle that receives enough bars
\* produces a signal.
C18_InsufficientHistoryIsFlat ==
    /\ (candles # None /\ Len(candles[1]) < BBLength) =>
           ~processed_data.raised /\ processed_data.signal = Some(0)
    /\ EnoughBars => ~processed_data.raised /\ processed_data.signal # None

\* ------------------------------------------------------ fused signal
\* (bollinger_macd_dca.py: update_processed_data; macd_mt_dca.py fuses two MACD
\* signals the same way)
FusedBars == 2        \* most bars of a series in one evaluation
MaxCandleTime == 3    \* candle timestamps range over 1..MaxCandleTime (ms)
NanosPerMilli == 1000000

\* pd.to_datetime(timestamp, unit='ms'), as nanoseconds since the epoch
to_datetime(timestamp) == timestamp * NanosPerMilli

\* (macdh, macd) of a bar: long, short and neither
MacdValues == { <<1, 0 - 1>>, <<0 - 1, 1>>, <<1, 1>> }
\* bbp of a bar against the default thresholds: long, neither, short
FusedBbpValues == {Some(0 - 1), Some(1), Some(2)}
FusedThresholds == [bb_long_threshold |-> 0, bb_short_threshold |-> 1]

\* strictly increasing timestamps, oldest first
TimeLines ==
    UNION { { t \in [1..n -> 1..MaxCandleTime] : \A i \in 1..(n - 1) : t[i] < t[i + 1] } :
            n \in 0..FusedBars }
MacdSeries ==
    UNION { { [i \in 1..Len(t) |-> [timestamp |-> t[i], macdh |-> v[i][1], macd |-> v[i][2]]] :
              v \in [1..Len(t) -> MacdValues] } : t \in TimeLines }
BbSeries ==
    UNION { { [i \in 1..Len(t) |-> [timestamp |-> t[i], bbp |-> v[i]]] :
              v \in [1..Len(t) -> FusedBbpValues] } : t \in TimeLines }

\* signal_macd of one row
macd_signal(row) ==
    LET long_condition == row.macdh > 0 /\ row.macd < 0
        short_condition == row.macdh < 0 /\ row.macd > 0
        signal1 == IF long_condition THEN 1 ELSE 0
    IN IF short_condition THEN 0 - 1 ELSE signal1

\* mutant of asof_backward: exact matches not allowed
RECURSIVE asof_strict(_, _, _)
asof_strict(time, right, j) ==
    IF j + 1 <= Len(right) /\ to_datetime(right[j + 1].timestamp) < time
    THEN asof_strict(time, right, j + 1)
    ELSE j

\* merge_asof(direction='backward'): the index of the last row of right whose time
\* is <= time, scanning the sorted rows from row j + 1; 0 when there is none
RECURSIVE asof_backward(_, _, _)
asof_backward(time, right, j) ==
    IF j + 1 <= Len(right) /\ to_datetime(right[j + 1].timestamp) <= time
    THEN asof_backward(time, right, j + 1)
    ELSE j

\* one row of df_merged with its signal; signal_bb is NaN when no row matched
merged_row(left, df) ==
    LET time == to_datetime(left.timestamp)
        j == asof_backward(time, df, 0)
        signal_macd == macd_signal(left)
        signal_bb == IF j = 0 THEN NaN ELSE Some(bb_signal(df[j].bbp, FusedThresholds))
    IN [time |-> time, timestamp |-> left.timestamp,
        signal_macd |-> signal_macd, signal_bb |-> signal_bb,
        signal |-> IF signal_bb # NaN /\ signal_macd = signal_bb[1] THEN signal_macd ELSE 0]

\* df.ta.macd / df.ta.bbands append no column to a frame without rows, and iloc[-1]
\* of an empty frame raises
fused_missing(c) == Len(c.df_macd) = 0 \/ Len(c.df) = 0

NoFusedData == [raised |-> FALSE, signal |-> None, features |-> <<>>]
\* update_processed_data of the two-indicator controller
update_processed_data_fused(c) ==
    IF fused_missing(c) THEN [raised |-> TRUE, signal |-> None, features |-> <<>>]
    ELSE LET df_merged == [i \in 1..Len(c.df_macd) |-> merged_row(c.df_macd[i], c.df)]
         IN [raised |-> FALSE,
             signal |-> Some(df_merged[Len(df_merged)].signal),
             features |-> df_merged]

FusedInit ==
    /\ StrategyOff
    /\ LadderOff
    /\ RefreshOff
    /\ indicator_config = FusedThresholds
    /\ max_records_list = Off
    /\ \E m \in MacdSeries, b \in BbSeries : candles = Some([df_macd |-> m, df |-> b])
    /\ processed_data = NoFusedData

\* the evaluation cycle of the two-indicator controller
UpdateProcessedDataFused ==
    /\ processed_data = NoFusedData
    /\ processed_data' = update_processed_data_fused(candles[1])
    /\ UNCHANGED <<indicator_config, max_records_list, candles>>
    /\ UNCHANGED <<strategy_vars, ladder_vars, refresh_vars>>

FusedNext == UpdateProcessedDataFused

SpecFused == FusedInit /\ [][FusedNext]_vars

\* the secondary bars at or before timestamp t that no other such bar is later than
LatestAtOrBefore(df, t) ==
    { j \in 1..Len(df) :
        /\ df[j].timestamp <= t
        /\ \A k \in 1..Len(df) : df[k].timestamp <= t => df[k].timestamp <= df[j].timestamp }

FusedDone == processed_data # NoFusedData /\ ~processed_data.raised

\* C17: for every timestamp t of the primary series the fused signal is the primary
\* signal at t if the latest secondary bar with timestamp <= t has the same signal,
\* and FLAT otherwise (also when no secondary bar is at or before t); the signal of
\* the cycle is that of the last primary bar.
C17_FusedSignal ==
    FusedDone =>
        LET primary == candles[1].df_macd
            secondary == candles[1].df
            fused == processed_data.features
        IN /\ Len(fused) = Len(primary)
           /\ \A i \in 1..Len(primary) :
                 LET own == macd_signal(primary[i])
                     agree == \E j \in LatestAtOrBefore(secondary, primary[i].timestamp) :
                                  bb_signal(secondary[j].bbp, FusedThresholds) = own
                 IN fused[i].signal = IF agree THEN own ELSE 0
           /\ processed_data.signal = Some(fused[Len(fused)].signal)

\* the last primary bar is LONG, the secondary bar of the same timestamp is LONG and
\* the cycle's signal is LONG, while an earlier secondary bar disagrees
C17_Witness ==
    /\ FusedDone
    /\ processed_data.signal = Some(1)
    /\ Len(candles[1].df) = FusedBars
    /\ candles[1].df[Len(candles[1].df)].timestamp
           = candles[1].df_macd[Len(candles[1].df_macd)].timestamp
    /\ bb_signal(candles[1].df[1].bbp, FusedThresholds) # 1

\* ------------------------------------------------------ candle horizon
\* (bollinger_macd_dca.py: get_candle_max_records)
MaxPeriods == 2       \* greatest value of macd_slow, macd_signal and bb_length

Intervals == {"1s", "1m", "3m", "5m", "15m", "30m", "1h", "4h", "1d"}
interval_durations ==
    [i \in Intervals |->
        CASE i = "1s" -> 1
          [] i = "1m" -> 60
          [] i = "3m" -> 3 * 60
          [] i = "5m" -> 5 * 60
          [] i = "15m" -> 15 * 60
          [] i = "30m" -> 30 * 60
          [] i = "1h" -> 60 * 60
          [] i = "4h" -> 4 * 60 * 60
          [] i = "1d" -> 24 * 60 * 60]

HorizonConfigs ==
    { [macd_interval |-> mi, macd_slow |-> sl, macd_signal |-> sg,
       bb_interval |-> bi, bb_length |-> bl] :
          mi \in Intervals, bi \in Intervals,
          sl \in 1..MaxPeriods, sg \in 1..MaxPeriods, bl \in 1..MaxPeriods }

\* min(a, b) and max(a, b)
min(a, b) == IF a < b THEN a ELSE b
max(a, b) == IF a > b THEN a ELSE b

\* mutant of get_candle_max_records: the horizon is the smaller of the two totals
get_candle_max_records_min(cfg) ==
    LET total_macd_seconds == interval_durations[cfg.macd_interval] * (cfg.macd_slow + cfg.macd_signal)
        total_bb_seconds == interval_durations[cfg.bb_interval] * cfg.bb_length
        max_seconds == min(total_macd_seconds, total_bb_seconds)
    IN << max_seconds \div interval_durations[cfg.macd_interval],
          max_seconds \div interval_durations[cfg.bb_interval] >>

\* get_candle_max_records: [max_records_macd, max_records_bb]
get_candle_max_records(cfg) ==
    LET total_macd_seconds == interval_durations[cfg.macd_interval] * (cfg.macd_slow + cfg.macd_signal)
        total_bb_seconds == interval_durations[cfg.bb_interval] * cfg.bb_length
        max_seconds == max(total_macd_seconds, total_bb_seconds)
        max_records_macd == max_seconds \div interval_durations[cfg.macd_interval]
        max_records_bb == max_seconds \div interval_durations[cfg.bb_interval]
    IN <<max_records_macd, max_records_bb>>

HorizonInit ==
    /\ StrategyOff
    /\ LadderOff
    /\ RefreshOff
    /\ indicator_config \in HorizonConfigs
    /\ max_records_list = None
    /\ candles = Off
    /\ processed_data = Off

\* __init__ asks for the candle counts of the two series
GetCandleMaxRecords ==
    /\ max_records_list = None
    /\ max_records_list' = get_candle_max_records(indicator_config)
    /\ UNCHANGED <<indicator_config, candles, processed_data>>
    /\ UNCHANGED <<strategy_vars, ladder_vars, refresh_vars>>

HorizonNext == GetCandleMaxRecords

SpecHorizon == HorizonInit /\ [][HorizonNext]_vars

\* seconds covered by the required periods of each indicator
MacdSeconds == interval_durations[indicator_config.macd_interval]
                   * (indicator_config.macd_slow + indicator_config.macd_signal)
BbSeconds == interval_durations[indicator_config.bb_interval] * indicator_config.bb_length
\* n is the floor of h / d
IsFloor(n, h, d) == n * d <= h /\ h < (n + 1) * d

\* C19: the horizon H is the greater of interval seconds * required periods of the two
\* indicators (macd_slow + macd_signal for the MACD, bb_length for the bands); each
\* series gets floor(H / its interval seconds) bars, which is at least its own
\* required periods.
C19_LookBackHorizon ==
    max_records_list # None =>
        \E H \in {MacdSeconds, BbSeconds} :
            /\ H >= MacdSeconds /\ H >= BbSeconds
            /\ IsFloor(max_records_list[1], H, interval_durations[indicator_config.macd_interval])
            /\ IsFloor(max_records_list[2], H, interval_durations[indicator_config.bb_interval])
            /\ max_records_list[1] >= indicator_config.macd_slow + indicator_config.macd_signal
            /\ max_records_list[2] >= indicator_config.bb_length

\* the two series have different intervals and the horizon is not a whole number of
\* bars of the MACD series
C19_Witness ==
    /\ max_records_list # None
    /\ indicator_config.macd_interval # indicator_config.bb_interval
    /\ max_records_list[1] * interval_durations[indicator_config.macd_interval] < BbSeconds
    /\ max_records_list[1] > indicator_config.macd_slow + indicator_config.macd_signal

\* ======================================================================
\* Wind-down of the strategy under fair scheduling
\* ======================================================================

\* a clock tick later than MaxTime: the clock value is held at MaxTime, which is at or
\* after every deadline set_cashout_time can set
TickLate ==
    /\ pc = "started"
    /\ current_timestamp = MaxTime
    /\ LET now == current_timestamp
           s == on_tick([status |-> status,
                         max_portfolio_value |-> max_portfolio_value,
                         cashing_out |-> cashing_out,
                         calls |-> <<>>,
                         app_stopped |-> FALSE], now)
       IN /\ status' = s.status
          /\ max_portfolio_value' = s.max_portfolio_value
          /\ cashing_out' = s.cashing_out
          /\ calls' = s.calls
          /\ pc' = IF s.app_stopped THEN "stopped" ELSE pc
    /\ peak' = IF max_portfolio_loss # 0 THEN [q \in Assets |-> PeakAfterCheck(q)] ELSE peak
    /\ UNCHANGED <<current_timestamp, time_to_cash_out, max_portfolio_loss, markets,
                   trading_pair, manual_kill_switch, global_pnl_quote, executors,
                   initial_portfolio_value, cash_out_time>>
    /\ UNCHANGED controller_vars

\* the orchestrator closes an executor that is trading (it completes on its own) or
\* that the last tick asked to stop
CloseAsAssumed(e) ==
    /\ CloseExecutor(e)
    /\ \/ executors[e].is_trading
       \/ \E i \in 1..Len(calls) :
              calls[i].op = "StopExecutorAction" /\ calls[i].executor_id = e

DrainNext ==
    \/ Next
    \/ TickLate

\* a tick would change the state: the enabling condition of <<Tick \/ TickLate>>_vars
TickChanges ==
    /\ pc = "started"
    /\ \/ current_timestamp < MaxTime
       \/ LET s == on_tick([status |-> status,
                            max_portfolio_value |-> max_portfolio_value,
                            cashing_out |-> cashing_out,
                            calls |-> <<>>,
                            app_stopped |-> FALSE], current_timestamp)
          IN \/ <<s.status, s.max_portfolio_value, s.cashing_out, s.calls, s.app_stopped>>
                    # <<status, max_portfolio_value, cashing_out, calls, FALSE>>
             \/ (max_portfolio_loss # 0 /\ [q \in Assets |-> PeakAfterCheck(q)] # peak)

\* the clock keeps ticking: WF_vars(Tick \/ TickLate), written out with its enabling
\* condition as the state predicate TickChanges
TickFairness == []<>(~TickChanges) \/ []<><<Tick \/ TickLate>>_vars

\* an executor that is asked to stop again and again, or that is trading, is
\* eventually closed
DrainFairness ==
    /\ TickFairness
    /\ \A e \in Executors : SF_vars(CloseAsAssumed(e))

\* a deployment with a cash-out time configured
DrainInit == Init /\ Truthy(time_to_cash_out)

SpecDrain == DrainInit /\ [][DrainNext]_vars /\ DrainFairness

DeadlinePassed ==
    /\ pc = "started"
    /\ Truthy(cash_out_time)
    /\ current_timestamp >= cash_out_time[1]
ShutdownRequested ==
    pc = "stopped" /\ IssuedIn(calls, "drain", "app.stop", NoId, NoId)

\* C21: if the clock keeps ticking and the orchestrator eventually closes every
\* executor that is trading or keeps being asked to stop, then once the cash-out
\* deadline has passed the strategy eventually reaches a tick that requests process
\* shutdown.
C21_DrainLiveness == DeadlinePassed ~> ShutdownRequested

\* shutdown was requested with the clock at MaxTime, during the wind-down, after an
\* executor closed
C21_Witness ==
    /\ ShutdownRequested
    /\ cashing_out
    /\ current_timestamp = MaxTime
    /\ \E e \in Executors : executors[e].status = "TERMINATED"

\* ------------------------------------------------- C23
\* C23: while the strategy is cashing out no controller is RUNNING, and the calls of a
\* tick hold no controller.start and nothing issued by the manual kill-switch check,
\* whatever the kill-switch flags are.
C23_NoControllerRunsInWindDown ==
    cashing_out =>
        /\ \A c \in Controllers : status[c] # "RUNNING"
        /\ \A i \in 1..Len(calls) :
               calls[i].op # "controller.start" /\ calls[i].step # "manual"

\* a tick after the deadline tick has just run the drain while a TERMINATED
\* controller has its kill switch cleared (the restart branch would start it)
C23_Witness ==
    /\ cashing_out
    /\ pc = "started"
    /\ current_timestamp > cash_out_time[1]
    /\ \E e \in Executors : StopRequestedIn(calls, "drain", e)
    /\ \E c \in Controllers : ~manual_kill_switch[c] /\ status[c] = "TERMINATED"

\* ------------------------------------------------- C24
\* C24: with executor_refresh_time left at None, executors_to_refresh does not raise
\* and returns no stop action, whatever the executors of the controller are.
C24_NoRefreshTimeReturnsEmpty ==
    (refresh_actions # None /\ refresh_input.executor_refresh_time = None) =>
        /\ ~refresh_actions[1].raised
        /\ refresh_actions[1].actions = <<>>

\* ======================================================================
\* Repeated stop requests: the wind-down of the strategy and the cycles of the
\* controller's refresh rule
\* ======================================================================
MaxCycles == 2

\* what the orchestrator may report for an executor one cycle later: unchanged, filled
\* or closed
Evolve(x) ==
    {x}
    \cup (IF x.is_active /\ ~x.is_trading THEN {[x EXCEPT !.is_trading = TRUE]} ELSE {})
    \cup (IF x.is_active THEN {[x EXCEPT !.is_active = FALSE, !.is_trading = FALSE]} ELSE {})

\* the next control cycle of the controller: the clock has advanced, the executors
\* report is refreshed, and executors_to_refresh is called again
RefreshCycle ==
    /\ pc = Off
    /\ refresh_actions # None
    /\ refresh_input.time < RefreshNow + MaxCycles
    /\ \E e1 \in Evolve(refresh_input.executors_info[1]),
          e2 \in Evolve(refresh_input.executors_info[2]) :
           refresh_input' = [refresh_input EXCEPT !.time = @ + 1,
                                                  !.executors_info = <<e1, e2>>]
    /\ refresh_actions' = Some(executors_to_refresh(refresh_input'))
    /\ UNCHANGED <<strategy_vars, ladder_vars, signal_vars>>

\* the first control cycle of the controller
FirstRefreshCycle == pc = Off /\ ExecutorsToRefresh

StopRequestsNext ==
    \/ Next
    \/ FirstRefreshCycle
    \/ RefreshCycle

\* the strategy and one controller's refresh rule, each on its own variables
SpecStopRequests == (Init \/ RefreshInit) /\ [][StopRequestsNext]_vars

AnyStopRequestedIn(cs, e) ==
    \E i \in 1..Len(cs) : cs[i].op = "StopExecutorAction" /\ cs[i].executor_id = e
StillNonTrading(e) == executors[e].status = "RUNNING" /\ ~executors[e].is_trading

\* the refresh rule keeps no record: a stop action returned in one cycle is returned
\* again in the next for an executor still active and not trading, and the call leaves
\* its inputs as they were
GovernorRepeats ==
    /\ (pc = Off /\ refresh_actions = None /\ refresh_actions' # None) =>
           refresh_input' = refresh_input
    /\ (pc = Off /\ refresh_actions # None /\ refresh_actions' # None) =>
           /\ refresh_input'.executor_refresh_time = refresh_input.executor_refresh_time
           /\ \A i \in 1..Len(refresh_input.executors_info) :
                  LET was == refresh_input.executors_info[i]
                      now == refresh_input'.executors_info[i]
                  IN /\ now.id = was.id /\ now.timestamp = was.timestamp
                     /\ (StopReturned(refresh_actions[1], was)
                            /\ now.is_active /\ ~now.is_trading) =>
                        /\ StopReturned(refresh_actions'[1], now)
                        /\ \A k \in 1..Len(refresh_actions'[1].actions) :
                               refresh_actions'[1].actions[k].controller_id = ConfigId

\* ------------------------------------------------- C22
\* C22 as stated: after any stop request for an executor, a tick that still finds the
\* executor RUNNING and not trading issues a stop request for it again; the same for the
\* cycles of the refresh rule.
C22_EveryStopRequestRepeats ==
    [][/\ (pc = "started" /\ IsTick) =>
              \A e \in Executors :
                  (AnyStopRequestedIn(calls, e) /\ StillNonTrading(e)) =>
                      AnyStopRequestedIn(calls', e)
       /\ GovernorRepeats]_vars

\* C22: a tick that starts in CASHING_OUT issues the drain's stop request again for
\* every executor that is still RUNNING and not trading, with the same controller and
\* executor ids as the tick before, and leaves the cash-out flag, the cash-out
\* deadline, the initial snapshot, the controllers and the executors as they were; when
\* it directly follows the tick that issued the request it also leaves the running
\* max as it was. A stop action returned by executors_to_refresh is returned again in
\* the next cycle for an executor still active and not trading, and the call leaves its
\* inputs as they were.
C22_DrainStopRequestsRepeat ==
    [][/\ (pc = "started" /\ IsTick /\ cashing_out) =>
              /\ \A e \in Executors :
                     StillNonTrading(e) =>
                         /\ CountIn(calls', "drain", "StopExecutorAction",
                                    executors[e].controller_id, e) = 1
                         /\ StopRequestedIn(calls, "drain", e) =>
                                /\ IssuedIn(calls, "drain", "StopExecutorAction",
                                            executors[e].controller_id, e)
                                /\ max_portfolio_value' = max_portfolio_value
              /\ cashing_out'
              /\ UNCHANGED <<cash_out_time, initial_portfolio_value, status, executors,
                             time_to_cash_out, manual_kill_switch, global_pnl_quote>>
       /\ GovernorRepeats]_vars

\* the drain's stop request for an executor has just been issued in a tick after the
\* tick that reached the deadline
C22_Witness ==
    /\ pc = "started"
    /\ cashing_out
    /\ current_timestamp > cash_out_time[1]
    /\ \E e \in Executors : StopRequestedIn(calls, "drain", e) /\ StillNonTrading(e)

\* the refresh rule has returned a stop action in a cycle after the first
C22_GovernorWitness ==
    /\ pc = Off
    /\ refresh_actions # None
    /\ refresh_input.time > RefreshNow
    /\ refresh_actions[1].actions # <<>>

====
